---- MODULE Spec2Model ----
(***************************************************************************)
(* Model of the invoicing backend: invoiceService.ts (createInvoice,       *)
(* updateInvoice, deleteInvoice, getInvoiceById, getAllInvoices) and the   *)
(* cash-register closeout of reportService (closeDayShift,                 *)
(* calculateSalesSinceLastCloseout), over a PostgreSQL store accessed      *)
(* through Prisma (interactive transactions, READ COMMITTED).              *)
(*                                                                         *)
(* Money: a JavaScript amount is an integer number of 1/10000 of the       *)
(* currency unit; a DECIMAL(18,2) column holds an integer number of cents. *)
(***************************************************************************)
EXTENDS Integers, Sequences, FiniteSets, TLC

\* ------------------------------------------------------------------ bounds
MaxItems    == 2    \* lines of one createInvoice call
MaxInvoices == 2    \* invoices ever created
MaxTime     == 1    \* last value of the clock
MaxCloseouts == 3   \* closeout rows ever created (SpecChain)
MaxShifts   == 2    \* closeout rows ever created (SpecClose)
MaxRegisters == 3   \* CashRegister rows ever created (SpecSchema)
MaxEdits    == 3    \* writes to the local and the remote store (SpecSync)

\* --------------------------------------------------------------- constants
IVA_RATE_PCT        == 19

Tenants    == {"tA", "tB"}
Creators   == {"c1", "c2"}
ProductIds == {"p1", "p2", "p3"}
NoProduct  == "p0"            \* an id no Product row has
NoPrice    == -1              \* item.unitPrice absent
NoRate     == -1              \* item.taxRate absent
NoDate     == -1              \* issueDate absent
NoWrite    == -1000           \* no uncommitted write of the row
NoInvoice  == 0
Statuses   == {"DRAFT", "ISSUED", "PAID", "CANCELLED"}
NoStatus   == "none"

\* The Product table (all columns but stock are fixed in this model).
ProductTenant(p) == IF p = "p3" THEN "tB" ELSE "tA"
ProductPrice(p)  == IF p = "p1" THEN 103 ELSE 100      \* cents
InitStock(p)     == CASE p = "p1" -> 7 [] p = "p2" -> 1 [] OTHER -> 2

\* Invoice numbers as the caller sends them: strings over " ", "A", "B".
NumA      == <<"A">>
NumApad   == <<" ", "A", " ">>
NumB      == <<"B">>
NumBlank  == <<" ">>
NumEmpty  == <<>>

VARIABLES
  stock,          \* Product.stock of every product (committed rows)
  invoices,       \* the Invoice rows with their InvoiceItem rows (committed)
  nextInvoiceId,  \* ids handed out so far
  cr,             \* per createInvoice caller: position and locals of the call
  ed,             \* the updateInvoice or deleteInvoice call in progress
  registers,      \* the CashRegister rows, by id
  closeouts,      \* the ShiftCloseout rows, in the order of their ids
  cl,             \* the closeDayShift call in progress
  tally,          \* per invoice id: the closeouts that summed the invoice
                  \* and whether a closeout began after it was stored
  last,           \* the answer given by the step just taken, if it ended a call
  now,            \* the clock read by new Date()
  rq,             \* the request to a report route on its way through the
                  \* middlewares of the route
  rp,             \* the answer of the report read made last
  sqlite,         \* the rows of one synced model in the local store, by id
  pg,             \* the rows of the model in the remote store, by id
  sy,             \* the SyncResult of the syncData call just made
  wall,           \* the time of the last write to either store
  users,          \* the User rows, in the order of their creation
  tenants,        \* the slugs of the Tenant rows
  au              \* per caller of register or promoteToAdmin: position and
                  \* locals of the call

vars == <<stock, invoices, nextInvoiceId, cr, ed, registers, closeouts, cl,
          tally, last, now, rq, rp, sqlite, pg, sy, wall, users, tenants, au>>

closeVars == <<registers, closeouts, cl, tally>>

\* The state of the invoice and closeout services.
coreVars == <<stock, invoices, nextInvoiceId, cr, ed, closeVars, last, now>>

\* The state outside the invoice and closeout services.
syncVars == <<sqlite, pg, sy, wall>>
userVars == <<users, tenants, au>>
apiVars == <<rq, rp, syncVars, userVars>>

\* ------------------------------------------------------------ pure helpers
RECURSIVE TrimLeft(_)
TrimLeft(s) == IF s # <<>> /\ Head(s) = " " THEN TrimLeft(Tail(s)) ELSE s

RECURSIVE TrimRight(_)
TrimRight(s) ==
  IF s # <<>> /\ s[Len(s)] = " " THEN TrimRight(SubSeq(s, 1, Len(s) - 1)) ELSE s

\* String.prototype.trim
Trim(s) == TrimRight(TrimLeft(s))

\* A JavaScript number written into a DECIMAL(18,2) column (round half away
\* from zero), result in cents.
Dec2(x) == IF x >= 0 THEN (x + 50) \div 100 ELSE 0 - ((50 - x) \div 100)

\* Cents read back as a JavaScript number.
FromCents(c) == c * 100

LineSubtotal(it) == it.unitPrice * it.quantity
LineTax(it)      == it.taxAmount

\* ------------------------------------------------------- createInvoice
IdleCall ==
  [pc |-> "idle", tenantId |-> "tA", number |-> NumEmpty, status |-> NoStatus,
   issueDate |-> NoDate, applyIva |-> FALSE,
   processed |-> <<>>, writes |-> [p \in ProductIds |-> NoWrite],
   cur |-> <<>>, warnings |-> <<>>]

\* The answer of a call: the operation, the tenant and the number or id it
\* was called with, how it ended (ok or the error), the id of the invoice it
\* is about, the lines processed before it ended, and the rows it returned;
\* status is the HTTP status where the controller of the call is modelled,
\* else 0.
Answer(op, t, num, outcome, id, lines, rows) ==
  [op |-> op, tenant |-> t, number |-> num, outcome |-> outcome, id |-> id,
   lines |-> lines, rows |-> rows, status |-> 0]

NoAnswer == Answer("none", "tA", NumEmpty, "none", NoInvoice, 0, {})

\* createInvoice throws.
Rejected(call, outcome) ==
  Answer("createInvoice", call.tenantId, call.number, outcome, NoInvoice,
         Len(call.processed), {})

InTx(c) == cr[c].pc \in {"read", "write", "create"}

\* Lines 246-258: prisma.invoice.findUnique({ where: { tenantId_number } })
NumberInUse(t, num) ==
  \E i \in invoices : i.tenantId = t /\ i.number = num

\* The unique index Invoice_tenantId_number_key.
UniqueViolation(t, num) ==
  \E i \in invoices : i.tenantId = t /\ i.number = num

\* P2002 passed on as it came.
P2002Unhandled == "internal error"

\* Lines 409-411: the error thrown for P2002.
P2002Message == "number in use"

\* The updates made on prisma instead of tx: they survive the rollback.
StockAfterRollbackLeaky(call) ==
  [p \in ProductIds |->
     IF call.writes[p] # NoWrite THEN call.writes[p] ELSE stock[p]]

\* The Product rows after a rollback of the transaction of a call: the
\* writes made through tx are discarded.
StockAfterRollback(call) == stock

\* The Product rows after the commit of the transaction of a call.
StockAfterCommit(call) ==
  [p \in ProductIds |->
     IF call.writes[p] # NoWrite THEN call.writes[p] ELSE stock[p]]

\* Lines 235-258: validation and the check of the number before the
\* transaction. The lines of data.items are drawn when the loop reaches
\* them; here only whether the array is empty.
CreateBegin(c, t, num, st, iss, iva, noItems) ==
  /\ cr[c].pc = "idle"
  /\ LET call == [IdleCall EXCEPT !.tenantId = t, !.number = num,
                    !.status = st, !.issueDate = iss, !.applyIva = iva]
     IN
     IF num = <<>> \/ Trim(num) = <<>>
       THEN last' = Rejected(call, "number required") /\ UNCHANGED cr
     ELSE IF noItems
       THEN last' = Rejected(call, "items required") /\ UNCHANGED cr
     ELSE IF NumberInUse(t, Trim(num))
       THEN last' = Rejected(call, "number in use") /\ UNCHANGED cr
     ELSE cr' = [cr EXCEPT ![c] = [call EXCEPT !.pc = "read"]]
          /\ last' = NoAnswer
  /\ UNCHANGED <<apiVars, stock, invoices, nextInvoiceId, now, ed, closeVars>>

\* The stock of a product as a statement of the transaction of c reads it:
\* its own uncommitted write, else the committed row.
TxStock(c, p) ==
  IF cr[c].writes[p] # NoWrite THEN cr[c].writes[p] ELSE stock[p]

\* The check of line 293 left out.
InsufficientStockUnchecked(available, quantity) == FALSE

\* Line 293: is the stock too small for the line?
InsufficientStock(available, quantity) == available < quantity

\* The ownership check of line 287 left out.
ForeignProductIgnored(productTenant, tenantId) == FALSE

\* Line 287: the product row belongs to another tenant than the caller's.
ForeignProduct(productTenant, tenantId) == productTenant # tenantId

\* Lines 300-302: the unit price of a line.
ResolveUnitPrice(itemPrice, productPrice) ==
  IF itemPrice # NoPrice /\ itemPrice # 0
    THEN FromCents(itemPrice) ELSE FromCents(productPrice)

\* Line 305
TaxAmount(subtotal, applyIva) ==
  IF applyIva THEN (subtotal * IVA_RATE_PCT) \div 100 ELSE 0

\* Lines 406-426 after a throw inside the transaction: the transaction is
\* rolled back and the error goes to the caller.
Abort(c, outcome) ==
  /\ cr' = [cr EXCEPT ![c] = IdleCall]
  /\ last' = Rejected(cr[c], outcome)
  /\ stock' = StockAfterRollback(cr[c])

\* Lines 275-309: tx.product.findUnique for the next line, item, of
\* data.items and the checks and prices computed from it; item is kept with
\* the line to tell what the caller asked for.
TxReadItem(c, item) ==
  /\ cr[c].pc = "read"
  /\ LET call  == cr[c]
         pid   == item.productId
         qty   == item.quantity
         price == item.unitPrice
     IN
     IF pid \notin ProductIds
       THEN Abort(c, "product not found")
     ELSE IF ForeignProduct(ProductTenant(pid), call.tenantId)
       THEN Abort(c, "product of another tenant")
     ELSE IF InsufficientStock(TxStock(c, pid), qty)
       THEN Abort(c, "insufficient stock")
     ELSE
       LET unitPrice == ResolveUnitPrice(price, ProductPrice(pid))
           subtotal  == unitPrice * qty
           taxAmount == TaxAmount(subtotal, call.applyIva)
       IN
       /\ cr' = [cr EXCEPT ![c].pc = "write",
                           ![c].cur = [productId |-> pid, quantity |-> qty,
                                       unitPrice |-> unitPrice,
                                       taxAmount |-> taxAmount,
                                       totalAmount |-> subtotal + taxAmount,
                                       newStock |-> TxStock(c, pid) - qty,
                                       item |-> item]]
       /\ UNCHANGED stock
       /\ last' = NoAnswer
  /\ UNCHANGED <<apiVars, invoices, nextInvoiceId, now, ed, closeVars>>

\* The read for a line whose item has no taxRate.
TxRead(c, pid, qty, price) ==
  TxReadItem(c, [productId |-> pid, quantity |-> qty, unitPrice |-> price,
                 taxRate |-> NoRate])

\* The threshold itself not counted as low.
LowStockStrict(newStock) == newStock < 5

\* Line 320
LowStock(newStock) == newStock <= 5

\* The row lock of UPDATE: another open transaction has written the row.
RowLocked(c, p) ==
  \E d \in Creators \ {c} : InTx(d) /\ cr[d].writes[p] # NoWrite

\* Lines 311-337: tx.product.update({ stock: newStock }), the low-stock
\* warning and processedItems.push; more tells whether data.items has a
\* further line.
TxWrite(c, more) ==
  /\ cr[c].pc = "write"
  /\ LET call == cr[c]
         cur  == call.cur
     IN
     /\ ~RowLocked(c, cur.productId)
     /\ more => Len(call.processed) + 1 < MaxItems
     /\ cr' = [cr EXCEPT ![c] =
          [call EXCEPT
             !.writes[cur.productId] = cur.newStock,
             !.warnings = IF LowStock(cur.newStock)
                            THEN Append(call.warnings,
                                        <<cur.productId, cur.newStock>>)
                            ELSE call.warnings,
             !.processed = Append(call.processed, cur),
             !.cur = <<>>,
             !.pc = IF more THEN "read" ELSE "create"]]
  /\ last' = NoAnswer
  /\ UNCHANGED <<apiVars, stock, invoices, nextInvoiceId, now, ed, closeVars>>

\* Lines 370-378: the InvoiceItem row of a processed line.
ItemRow(it, applyIva) ==
  [productId |-> it.productId,
   quantity |-> it.quantity,
   unitPrice |-> Dec2(it.unitPrice),
   taxRateApplied |-> IF applyIva THEN IVA_RATE_PCT ELSE 0,
   taxAmount |-> Dec2(it.taxAmount),
   totalAmount |-> Dec2(it.totalAmount)]

\* Lines 339-349
RECURSIVE InvoiceSubtotal(_)
InvoiceSubtotal(processed) ==
  IF processed = <<>> THEN 0
  ELSE LineSubtotal(Head(processed)) + InvoiceSubtotal(Tail(processed))

RECURSIVE InvoiceTax(_)
InvoiceTax(processed) ==
  IF processed = <<>> THEN 0
  ELSE LineTax(Head(processed)) + InvoiceTax(Tail(processed))

InvoiceTotal(processed)    == InvoiceSubtotal(processed) + InvoiceTax(processed)

\* The number stored as sent.
StoredNumberUntrimmed(number) == number

\* Line 356
StoredNumber(number) == Trim(number)

\* Lines 352-380: the Invoice row of the call with its InvoiceItem rows.
\* warnings (returned with the row) and stockAfter (the stock each line
\* wrote) are no columns: they record what the call did.
InvoiceRow(call, id) ==
  [id |-> id,
   tenantId |-> call.tenantId,
   number |-> StoredNumber(call.number),
   status |-> IF call.status = NoStatus THEN "DRAFT" ELSE call.status,
   issueDate |-> IF call.issueDate # NoDate THEN call.issueDate ELSE now,
   subtotal |-> Dec2(InvoiceSubtotal(call.processed)),
   taxTotal |-> Dec2(InvoiceTax(call.processed)),
   total |-> Dec2(InvoiceTotal(call.processed)),
   items |-> [k \in 1..Len(call.processed) |->
                ItemRow(call.processed[k], call.applyIva)],
   warnings |-> call.warnings,
   stockAfter |-> [k \in 1..Len(call.processed) |->
                     call.processed[k].newStock]]

\* Lines 352-405: tx.invoice.create under the unique index on
\* (tenantId, number), then the commit; P2002 rolls the transaction back.
TxCreate(c) ==
  /\ cr[c].pc = "create"
  /\ LET call == cr[c] IN
     IF UniqueViolation(call.tenantId, StoredNumber(call.number))
       THEN /\ Abort(c, P2002Message)
            /\ UNCHANGED <<invoices, nextInvoiceId>>
       ELSE /\ nextInvoiceId <= MaxInvoices
            /\ invoices' = invoices \cup {InvoiceRow(call, nextInvoiceId)}
            /\ nextInvoiceId' = nextInvoiceId + 1
            /\ stock' = StockAfterCommit(call)
            /\ cr' = [cr EXCEPT ![c] = IdleCall]
            /\ last' = Answer("createInvoice", call.tenantId, call.number,
                              "ok", nextInvoiceId, Len(call.processed), {})
  /\ UNCHANGED <<apiVars, now, ed, closeVars>>

\* Line 261: the transaction is closed by the database (deadlock, statement
\* or transaction timeout); the error reaches the caller through the catch
\* of lines 406-426.
TxError(c) ==
  /\ InTx(c)
  /\ Abort(c, "transaction closed")
  /\ UNCHANGED <<apiVars, invoices, nextInvoiceId, now, ed, closeVars>>

\* --------------------------------- getAllInvoices, getInvoiceById,
\* --------------------------------- updateInvoice, deleteInvoice
IdleEdit == [pc |-> "idle", tenantId |-> "tA", id |-> NoInvoice, data |-> <<>>]

\* The tenant check left out.
OwnedByAnyone(invoice, tenantId) == TRUE

\* Lines 201, 451 and 516: invoice.tenantId !== tenantId
OwnedBy(invoice, tenantId) == invoice.tenantId = tenantId

\* prisma.invoice.findUnique({ where: { id } }): the rows with the id.
InvoiceById(id) == {i \in invoices : i.id = id}

\* Lines 128-155
GetAllInvoices(t) ==
  /\ last' = Answer("getAllInvoices", t, NumEmpty, "ok", NoInvoice, 0,
                    {i \in invoices : i.tenantId = t})
  /\ UNCHANGED <<apiVars, stock, invoices, nextInvoiceId, cr, ed, closeVars, now>>

\* Lines 179-205
GetInvoiceById(id, t) ==
  /\ LET found == {i \in InvoiceById(id) : OwnedBy(i, t)} IN
     last' = Answer("getInvoiceById", t, NumEmpty,
                    IF found = {} THEN "not found" ELSE "ok", id, 0, found)
  /\ UNCHANGED <<apiVars, stock, invoices, nextInvoiceId, cr, ed, closeVars, now>>

\* Answer of updateInvoice and deleteInvoice.
EditAnswer(op, call, outcome) ==
  Answer(op, call.tenantId, NumEmpty, outcome, call.id, 0, {})

\* Lines 446-459: the invoice is looked up and its tenant compared; data is
\* the request body, a record of the columns to set.
UpdateCheck(id, data, t) ==
  /\ ed.pc = "idle"
  /\ LET call == [pc |-> "update", tenantId |-> t, id |-> id, data |-> data] IN
     IF \E i \in InvoiceById(id) : OwnedBy(i, t)
       THEN ed' = call /\ last' = NoAnswer
       ELSE ed' = ed /\ last' = EditAnswer("updateInvoice", call, "not found")
  /\ UNCHANGED <<apiVars, stock, invoices, nextInvoiceId, cr, closeVars, now>>

\* Lines 456-459 and 464: the columns of the row after the update, isSynced
\* being removed from the data.
Updated(row, data) ==
  [f \in DOMAIN row |->
     IF f \in DOMAIN data \ {"isSynced"} THEN data[f] ELSE row[f]]

\* Lines 462-482: prisma.invoice.update({ where: { id }, data }); P2025 when
\* the row is gone, P2002 when the number is taken.
UpdateWrite ==
  /\ ed.pc = "update"
  /\ ed' = IdleEdit
  /\ IF InvoiceById(ed.id) = {}
       THEN /\ last' = EditAnswer("updateInvoice", ed, "not found")
            /\ UNCHANGED invoices
       ELSE LET row == CHOOSE i \in invoices : i.id = ed.id
                new == Updated(row, ed.data)
            IN
            IF \E i \in invoices \ {row} :
                 i.tenantId = new.tenantId /\ i.number = new.number
              THEN /\ last' = EditAnswer("updateInvoice", ed, "P2002")
                   /\ UNCHANGED invoices
              ELSE /\ last' = EditAnswer("updateInvoice", ed, "ok")
                   /\ invoices' = (invoices \ {row}) \cup {new}
  /\ UNCHANGED <<apiVars, stock, nextInvoiceId, cr, closeVars, now>>

\* Lines 511-518
DeleteCheck(id, t) ==
  /\ ed.pc = "idle"
  /\ LET call == [pc |-> "delete", tenantId |-> t, id |-> id, data |-> <<>>] IN
     IF \E i \in InvoiceById(id) : OwnedBy(i, t)
       THEN ed' = call /\ last' = NoAnswer
       ELSE ed' = ed /\ last' = EditAnswer("deleteInvoice", call, "not found")
  /\ UNCHANGED <<apiVars, stock, invoices, nextInvoiceId, cr, closeVars, now>>

\* The quantity of product p on the lines of an invoice.
RECURSIVE QuantityOn(_, _)
QuantityOn(p, items) ==
  IF items = <<>> THEN 0
  ELSE (IF Head(items).productId = p THEN Head(items).quantity ELSE 0)
       + QuantityOn(p, Tail(items))

\* The quantities of the lines given back to the products.
StockAfterDeleteRestored(row) ==
  [p \in ProductIds |-> stock[p] + QuantityOn(p, row.items)]

\* Lines 520-523: the delete is the only statement; no product is written.
StockAfterDelete(row) == stock

\* Lines 521-526: prisma.invoice.delete({ where: { id } }); the InvoiceItem
\* rows go with the invoice (ON DELETE CASCADE).
DeleteWrite ==
  /\ ed.pc = "delete"
  /\ ed' = IdleEdit
  /\ IF InvoiceById(ed.id) = {}
       THEN /\ last' = EditAnswer("deleteInvoice", ed, "not found")
            /\ UNCHANGED <<invoices, stock>>
       ELSE /\ last' = EditAnswer("deleteInvoice", ed, "ok")
            /\ invoices' = invoices \ InvoiceById(ed.id)
            /\ stock' = StockAfterDelete(CHOOSE i \in invoices : i.id = ed.id)
  /\ UNCHANGED <<apiVars, nextInvoiceId, cr, closeVars, now>>

\* ------------------------------------------------- the product service
\* (productService.ts, held by DIAGNOSTICO_P1001_SUPABASE.md from line 835
\* on, and controllers/productController.ts)

NoStock == -1000              \* req.body.stock undefined

\* The bodies of PUT /products/:id: with a stock, without one.
ProductPatches == { [stock |-> 9], [stock |-> -1], [stock |-> NoStock] }

\* Lines 118-141 of productController.ts and 1160-1239 of the service:
\* updateProduct. The product is looked up and compared with the tenant of
\* the caller, then updated with the fields of the body that are defined;
\* the UPDATE waits for the transaction that holds the row.
UpdateProduct(id, data, t) ==
  /\ \A c \in Creators : ~(InTx(c) /\ id \in ProductIds /\ cr[c].writes[id] # NoWrite)
  /\ IF id \notin ProductIds \/ ProductTenant(id) # t
       THEN /\ last' = Answer("updateProduct", t, NumEmpty, "Product not found",
                              NoInvoice, 0, {})
            /\ UNCHANGED stock
       ELSE /\ last' = Answer("updateProduct", t, NumEmpty, "ok", NoInvoice, 0, {})
            /\ stock' = IF data.stock = NoStock THEN stock
                        ELSE [stock EXCEPT ![id] = data.stock]
  /\ UNCHANGED <<apiVars, invoices, nextInvoiceId, cr, ed, closeVars, now>>

\* Lines 1317-1323 of the service: updateProductStock.
UpdateProductStock(id, newStock, t) == UpdateProduct(id, [stock |-> newStock], t)

\* ---------------------------------------------------------- closeDayShift
NoBalance == -1               \* startingBalance absent
NoClosing == -1               \* no previous closeout
CloseUser == "u1"

InitRegisters ==
  (1 :> [tenantId |-> "tA", currentBalance |-> 100, isActive |-> TRUE])
  @@ (2 :> [tenantId |-> "tB", currentBalance |-> 50, isActive |-> FALSE])

IdleClose ==
  [pc |-> "idle", tenantId |-> "tA", cashRegisterId |-> 0,
   finalBalance |-> 0, given |-> NoBalance, startingBalance |-> 0,
   explicit |-> FALSE,
   lastClosing |-> NoClosing, salesTotal |-> 0, counted |-> {},
   present |-> {}, readFailed |-> FALSE]

\* SERIAL: the id of the next CashRegister row.
NextRegisterId ==
  1 + CHOOSE m \in DOMAIN registers : \A k \in DOMAIN registers : k <= m

\* Lines 528-536: the closeouts of the tenant on the register id.
CloseoutsOf(t, rid) ==
  {k \in 1..Len(closeouts) :
     closeouts[k].tenantId = t /\ closeouts[k].cashRegisterId = rid}

\* orderBy closingTime desc, findFirst: a row no other row of the set is
\* later than.
Latest(ks) ==
  {k \in ks : \A m \in ks : closeouts[m].closingTime <= closeouts[k].closingTime}

\* The previous closeout taken before the value of the caller.
StartingBalanceLastFirst(given, lastRow, register) ==
  IF lastRow # <<>> THEN FromCents(lastRow.finalBalance)
  ELSE IF given # NoBalance THEN given
  ELSE FromCents(register.currentBalance)

\* The previous closeout not looked at.
StartingBalanceOfRegister(given, lastRow, register) ==
  IF given # NoBalance THEN given
  ELSE FromCents(register.currentBalance)

\* Lines 540-550: the starting balance; lastRow is <<>> when there is no
\* previous closeout.
StartingBalance(given, lastRow, register) ==
  IF given # NoBalance THEN given
  ELSE IF lastRow # <<>> THEN FromCents(lastRow.finalBalance)
  ELSE FromCents(register.currentBalance)

\* Lines 495-550: the register is fetched, created or reactivated, the last
\* closeout of the register is read and the starting balance resolved.
CloseBegin(t, rid, fb, sb) ==
  /\ cl.pc = "idle"
  /\ LET found    == rid \in DOMAIN registers /\ registers[rid].tenantId = t
         created  == [tenantId |-> t, currentBalance |-> 0, isActive |-> TRUE]
         register == IF found THEN registers[rid] ELSE created
         afterCreate == IF found THEN registers
                        ELSE registers @@ (NextRegisterId :> created)
     IN
     /\ registers' = IF ~register.isActive
                       THEN [afterCreate EXCEPT ![rid].isActive = TRUE]
                       ELSE afterCreate
     /\ \E lastRow \in {closeouts[k] : k \in Latest(CloseoutsOf(t, rid))}
                       \cup (IF CloseoutsOf(t, rid) = {} THEN {<<>>} ELSE {}) :
          cl' = [IdleClose EXCEPT
                   !.pc = "sales", !.tenantId = t, !.cashRegisterId = rid,
                   !.finalBalance = fb, !.given = sb,
                   !.startingBalance = StartingBalance(sb, lastRow, register),
                   !.explicit = (sb # NoBalance),
                   !.lastClosing = IF lastRow = <<>> THEN NoClosing
                                   ELSE lastRow.closingTime,
                   !.present = {i.id : i \in invoices}]
  /\ last' = NoAnswer
  /\ UNCHANGED <<apiVars, stock, invoices, nextInvoiceId, cr, ed, closeouts, tally, now>>

\* Every invoice of the tenant counted, whatever its status.
SalesInvoicesAnyStatus(t, lastClosing) ==
  {i \in invoices :
     /\ i.tenantId = t
     /\ lastClosing # NoClosing => i.issueDate >= lastClosing}

\* Lines 403-432: the invoices that findMany returns.
SalesInvoices(t, lastClosing) ==
  {i \in invoices :
     /\ i.tenantId = t
     /\ i.status \in {"ISSUED", "PAID"}
     /\ lastClosing # NoClosing => i.issueDate >= lastClosing}

RECURSIVE SumTotals(_)
\* Lines 437-445
SumTotals(invs) ==
  IF invs = {} THEN 0
  ELSE LET i == CHOOSE x \in invs : TRUE
       IN FromCents(i.total) + SumTotals(invs \ {i})

\* The sum of the invoices whether the read failed or not.
SalesTotalRead(readOk, found) == SumTotals(found)

\* Lines 437-470: the sum of the invoices read, 0 from the catch.
SalesTotal(readOk, found) == IF readOk THEN SumTotals(found) ELSE 0

\* Lines 391-471 and 552-557: calculateSalesSinceLastCloseout; when the read
\* fails (readOk false) it returns 0.
CloseSales(readOk) ==
  /\ cl.pc = "sales"
  /\ LET found == SalesInvoices(cl.tenantId, cl.lastClosing) IN
     cl' = [cl EXCEPT !.pc = "create",
                      !.salesTotal = SalesTotal(readOk, found),
                      !.counted = IF readOk THEN {i.id : i \in found} ELSE {},
                      !.readFailed = ~readOk]
  /\ last' = NoAnswer
  /\ UNCHANGED <<apiVars, stock, invoices, nextInvoiceId, cr, ed, registers,
                 closeouts, tally, now>>

\* Answer of closeDayShift.
CloseAnswer(outcome) ==
  Answer("closeDayShift", cl.tenantId, NumEmpty, outcome, cl.cashRegisterId,
         0, {})

\* Lines 559-582: prisma.shiftCloseout.create; P2003 when no register has
\* the id. explicit is no column: it records whether the caller gave the
\* starting balance. tally records the invoices the new row summed and the
\* invoices that were stored when the call began.
CloseCreate ==
  /\ cl.pc = "create"
  /\ IF cl.cashRegisterId \notin DOMAIN registers
       THEN /\ cl' = IdleClose
            /\ last' = CloseAnswer("P2003")
            /\ UNCHANGED <<closeouts, tally>>
       ELSE /\ closeouts' = Append(closeouts,
                 [tenantId |-> cl.tenantId,
                  cashRegisterId |-> cl.cashRegisterId,
                  closingTime |-> now,
                  startingBalance |-> Dec2(cl.startingBalance),
                  finalBalance |-> Dec2(cl.finalBalance),
                  salesTotal |-> Dec2(cl.salesTotal),
                  closedByUserId |-> CloseUser,
                  explicit |-> cl.explicit])
            /\ tally' = [id \in DOMAIN tally |->
                 [counted |-> tally[id].counted
                                + (IF id \in cl.counted THEN 1 ELSE 0),
                  covered |-> tally[id].covered \/ id \in cl.present]]
            /\ cl' = [cl EXCEPT !.pc = "reset", !.counted = {},
                                !.present = {}]
            /\ last' = NoAnswer
  /\ UNCHANGED <<apiVars, stock, invoices, nextInvoiceId, cr, ed, registers, now>>

\* The balance left as it is.
BalanceKept(register) == register

\* Lines 589-591: data: { currentBalance: 0 }
BalanceReset(register) == [register EXCEPT !.currentBalance = 0]

\* Lines 584-601: the balance of the register with the id is reset and the
\* closeout returned.
CloseReset ==
  /\ cl.pc = "reset"
  /\ registers' = [registers EXCEPT
                     ![cl.cashRegisterId] = BalanceReset(registers[cl.cashRegisterId])]
  /\ cl' = IdleClose
  /\ last' = CloseAnswer("ok")
  /\ UNCHANGED <<apiVars, stock, invoices, nextInvoiceId, cr, ed, closeouts, tally, now>>

\* ------------------------------------- closeDayShift without its schema
\* What may be missing: the cashRegister and shiftCloseout models of the
\* generated client, the CashRegister table, the ShiftCloseout table.
SchemaGaps == {"models", "CashRegister", "ShiftCloseout"}

\* Line 492: the message thrown when the models are missing.
ModelsMessage == "Los modelos de cierre de caja no estan disponibles. Ejecuta: npx prisma generate"
\* The message of the error P2021 that Prisma throws for a missing table.
TableMessage == "The table does not exist in the current database."
\* Line 616: the message of the error thrown for a missing table.
MigrationMessage == "Las tablas de cierre de caja no estan disponibles. Por favor, ejecuta la migracion de Prisma: npx prisma migrate dev"

\* The texts that the service and the controller look for, as found in a
\* message.
Includes(message) ==
  CASE message = TableMessage ->
         {"does not exist", "does not exist in the current database"}
    [] message = MigrationMessage -> {"tabla", "tablas", "migracion"}
    [] OTHER -> {}

\* Lines 602-624: the error that the catch of closeDayShift throws on.
Rethrown(code, message) ==
  IF \/ code \in {"P2001", "42P01", "P1001"}
     \/ Includes(message) \cap {"does not exist",
                                "does not exist in the current database",
                                "(not available)"} # {}
  THEN MigrationMessage
  ELSE message

\* Lines 161-189 of reportController.ts: the status that handleError answers
\* an Error with.
HandleError(message) ==
  IF Includes(message) \cap {"tabla", "tablas", "migracion"} # {} THEN 503
  ELSE IF Includes(message) \cap {"no encontrada", "no existe"} # {} THEN 404
  ELSE 500

\* The error that closeDayShift meets first when part of the schema is
\* missing: its code and message.
FirstError(missing) ==
  IF missing = "models" THEN <<"", ModelsMessage>> ELSE <<"P2021", TableMessage>>

\* Lines 112-156 of reportController.ts and 476-625 of authService.ts:
\* closeDayShift is called while part of the schema is missing. Without the
\* ShiftCloseout table alone the register is fetched, created or
\* reactivated (lines 495-525) before the read of the last closeout fails.
CloseUnavailable(t, rid, fb, sb, missing) ==
  /\ cl.pc = "idle"
  /\ LET found    == rid \in DOMAIN registers /\ registers[rid].tenantId = t
         created  == [tenantId |-> t, currentBalance |-> 0, isActive |-> TRUE]
         register == IF found THEN registers[rid] ELSE created
         afterCreate == IF found THEN registers
                        ELSE registers @@ (NextRegisterId :> created)
         err == FirstError(missing)
         message == Rethrown(err[1], err[2])
     IN
     /\ registers' = IF missing # "ShiftCloseout" THEN registers
                     ELSE IF ~register.isActive
                       THEN [afterCreate EXCEPT ![rid].isActive = TRUE]
                       ELSE afterCreate
     /\ last' = [Answer("closeDayShift", t, NumEmpty, message, rid, 0, {})
                   EXCEPT !.status = HandleError(message)]
  /\ UNCHANGED <<apiVars, stock, invoices, nextInvoiceId, cr, ed, closeouts,
                 cl, tally, now>>

\* ----------------------------------------------------------------------
\* The report routes (routes/reportRoutes.ts) and their middlewares
\* (middleware/authMiddleware.ts)

ReadRoutes == {"dashboard", "revenue-by-month", "daily-weekly-revenue",
               "last-shift-closeout", "top-selling-products"}
CloseRoute == "close-shift"
ReportRoutes == ReadRoutes \cup {CloseRoute}

\* The tokens a request may carry: four signed with JWT_SECRET and not
\* expired, one expired and one signed with another key.
Tokens == {"jwtAdminA", "jwtCashierA", "jwtAdminB", "jwtManagerB",
           "jwtExpired", "jwtForged"}

NoUser == [userId |-> "none", tenantId |-> "none", role |-> "none"]

\* jwt.verify(token, JWT_SECRET): the payload, NoUser when verify throws.
Decoded(token) ==
  CASE token = "jwtAdminA"   -> [userId |-> "u1", tenantId |-> "tA", role |-> "ADMIN"]
    [] token = "jwtCashierA" -> [userId |-> "u2", tenantId |-> "tA", role |-> "CASHIER"]
    [] token = "jwtAdminB"   -> [userId |-> "u3", tenantId |-> "tB", role |-> "ADMIN"]
    [] token = "jwtManagerB" -> [userId |-> "u4", tenantId |-> "tB", role |-> "MANAGER"]
    [] OTHER                 -> NoUser

\* The Authorization headers: none (the empty sequence of words), a scheme
\* alone, a scheme and a token, a token alone.
AuthHeaders ==
  {<<>>, <<"Bearer">>}
    \cup {<<"Bearer", t>> : t \in Tokens}
    \cup {<<"Token", t>> : t \in Tokens}
    \cup {<<t>> : t \in Tokens}

NoToken == "none"

\* Line 21: authHeader && authHeader.split(' ')[1]
HeaderToken(header) == IF Len(header) >= 2 THEN header[2] ELSE NoToken

\* The check of line 57 left out.
RoleAllowedAlways(roles, role) == TRUE

\* Line 57: roles.includes(req.user.role)
RoleAllowed(roles, role) == role \in roles

\* Lines 9-14 of reportRoutes.ts: the middlewares of a route and the roles
\* given to restrictTo.
Chain(route) ==
  IF route = CloseRoute THEN <<"protect", "handler">>
  ELSE <<"protect", "restrictTo", "handler">>

RestrictedTo(route) == {"ADMIN"}

IdleRequest ==
  [at |-> 0, route |-> CloseRoute, header |-> <<>>, user |-> NoUser,
   status |-> 0, handled |-> FALSE]

\* What the middlewares of the report routes leave alone.
authFrame == <<coreVars, rp, syncVars, userVars>>

\* A request arrives at a report route.
Request(route, header) ==
  /\ rq.at = 0
  /\ rq' = [IdleRequest EXCEPT !.at = 1, !.route = route, !.header = header]
  /\ UNCHANGED authFrame

\* The middleware or handler the request is at.
AtStep(name) == rq.at > 0 /\ Chain(rq.route)[rq.at] = name

\* Lines 13-42 of authMiddleware.ts: protect.
Protect ==
  /\ AtStep("protect")
  /\ LET token == HeaderToken(rq.header)
     IN IF token = NoToken \/ Decoded(token) = NoUser
        THEN rq' = [rq EXCEPT !.at = 0, !.status = 401]
        ELSE rq' = [rq EXCEPT !.at = @ + 1, !.user = Decoded(token)]
  /\ UNCHANGED authFrame

\* Lines 50-66 of authMiddleware.ts: restrictTo(...roles).
RestrictTo ==
  /\ AtStep("restrictTo")
  /\ IF rq.user = NoUser
     THEN rq' = [rq EXCEPT !.at = 0, !.status = 401]
     ELSE IF ~RoleAllowed(RestrictedTo(rq.route), rq.user.role)
     THEN rq' = [rq EXCEPT !.at = 0, !.status = 403]
     ELSE rq' = [rq EXCEPT !.at = @ + 1]
  /\ UNCHANGED authFrame

\* The handler of the route is called with the request.
Handler ==
  /\ AtStep("handler")
  /\ rq' = [rq EXCEPT !.at = 0, !.handled = TRUE]
  /\ UNCHANGED authFrame

\* ----------------------------------------------------------------------
\* The reads of the report service (reportService.ts, held by
\* DIAGNOSTICO_P1001_SUPABASE.md from line 1346 on).  One tick of the clock
\* is a day, day 0 a Monday; an amount is in 1/10000 of the currency unit.

\* What the reads leave alone.
reportFrame == <<coreVars, rq, syncVars, userVars>>

\* The Client rows and the cost of the products.
Clients == {"k1", "k2", "k3"}
ClientTenant(k) == IF k = "k3" THEN "tB" ELSE "tA"
ProductCost(p)  == IF p = "p1" THEN 60 ELSE 50      \* cents

\* The queries a read makes, each of which may fail.
DashboardQueries == {"client.count", "product.count", "product.findMany",
                     "invoice.count"}
MonthQueries     == {"invoice.findMany"}
DayWeekQueries   == {"daily", "weekly"}
TopQueries       == {"invoiceItem.findMany"}
CloseoutQueries  == {"shiftCloseout.findFirst"}

ReportAnswer(op, t, failed, result) ==
  [op |-> op, tenant |-> t, failed |-> failed, threw |-> FALSE,
   result |-> result]

NoReport == ReportAnswer("none", "tA", {}, <<>>)

RECURSIVE SumOver(_, _)
\* The sum of the weights w[x] of the members x of a finite set.
SumOver(w, S) ==
  IF S = {} THEN 0
  ELSE LET x == CHOOSE y \in S : TRUE IN w[x] + SumOver(w, S \ {x})

\* Lines 1471-1493: the active products of the tenant, [] when the query
\* fails.
ProductsRead(t, failed) ==
  IF "product.findMany" \in failed THEN {}
  ELSE {p \in ProductIds : ProductTenant(p) = t}

\* Lines 1461-1465, 1468-1473, 1502-1506: .catch(() => 0) on the query of
\* the field.
DashboardField(failedHere, value) == IF failedHere THEN 0 ELSE value

\* Lines 1458-1527: getDashboardSummary.
DashboardSummary(t, failed) ==
  LET products == ProductsRead(t, failed)
      field(q, v) == DashboardField(q \in failed, v)
  IN [totalClients |->
        field("client.count", Cardinality({k \in Clients : ClientTenant(k) = t})),
      totalProducts |->
        field("product.count",
              Cardinality({p \in ProductIds : ProductTenant(p) = t})),
      inventoryValue |->
        SumOver([p \in ProductIds |-> stock[p] * FromCents(ProductCost(p))],
                products),
      lowStockProducts |-> Cardinality({p \in products : stock[p] <= 5}),
      totalInvoices |->
        field("invoice.count", Cardinality({i \in invoices : i.tenantId = t}))]

\* Lines 1517-1525: the summary returned by the catch.
ZeroSummary ==
  [totalClients |-> 0, totalProducts |-> 0, inventoryValue |-> 0,
   lowStockProducts |-> 0, totalInvoices |-> 0]

GetDashboardSummary(t, failed) ==
  /\ rp' = ReportAnswer("getDashboardSummary", t, failed,
                        DashboardSummary(t, failed))
  /\ UNCHANGED reportFrame

\* The invoices of a tenant that count as sales, issued on or after a day.
SalesSince(t, day) ==
  {i \in invoices : /\ i.tenantId = t
                    /\ i.status \in {"ISSUED", "PAID"}
                    /\ i.issueDate >= day}

\* The revenue of a set of invoices: the sum of Number(invoice.total).
Revenue(invs) ==
  SumOver([id \in 1..MaxInvoices |->
             LET is == {i \in invs : i.id = id}
             IN IF is = {} THEN 0 ELSE FromCents((CHOOSE i \in is : TRUE).total)],
          {i.id : i \in invs})

\* The month of a day, named by its first day (months of 30 days).
MonthOf(day) == day - (day % 30)

\* The Monday of the week of a day.
WeekOf(day) == day - (day % 7)

RECURSIVE Ascending(_)
\* The members of a finite set of integers in ascending order.
Ascending(S) ==
  IF S = {} THEN <<>>
  ELSE LET m == CHOOSE x \in S : \A y \in S : x <= y
       IN <<m>> \o Ascending(S \ {m})

\* Lines 1534-1616: getRevenueByMonth.
RevenueByMonth(t, failed) ==
  IF failed # {} THEN <<>>
  ELSE LET sales  == SalesSince(t, now - 365)
           months == Ascending({MonthOf(i.issueDate) : i \in sales})
       IN [k \in 1..Len(months) |->
             [month |-> months[k],
              revenue |-> Revenue({i \in sales :
                                     MonthOf(i.issueDate) = months[k]})]]

GetRevenueByMonth(t, failed) ==
  /\ rp' = ReportAnswer("getRevenueByMonth", t, failed,
                        RevenueByMonth(t, failed))
  /\ UNCHANGED reportFrame

\* Lines 1643-1726: the last 7 days, each with the revenue of the invoices
\* read for it; the failed query is read as [].
DailyRevenue(t, failed) ==
  LET read == IF "daily" \in failed THEN {} ELSE SalesSince(t, now - 7)
  IN [k \in 1..7 |->
        [date |-> now - 7 + k,
         revenue |-> Revenue({i \in read : i.issueDate = now - 7 + k})]]

\* Lines 1660-1792: the last 4 weeks, each with the revenue of the
\* invoices read for it (the order that the sort of lines 1785-1792 gives
\* the entries is left out: the entries are a set).
WeeklyRevenue(t, failed) ==
  LET read == IF "weekly" \in failed THEN {} ELSE SalesSince(t, now - 28)
  IN {[week |-> WeekOf(now - 7 * k),
       revenue |-> Revenue({i \in read :
                              WeekOf(i.issueDate) = WeekOf(now - 7 * k)})]
        : k \in 0..3}

\* Lines 1622-1806: getDailyAndWeeklyRevenue.
GetDailyAndWeeklyRevenue(t, failed) ==
  /\ rp' = ReportAnswer("getDailyAndWeeklyRevenue", t, failed,
                        [daily |-> DailyRevenue(t, failed),
                         weekly |-> WeeklyRevenue(t, failed)])
  /\ UNCHANGED reportFrame

RECURSIVE LineQuantity(_, _)
\* The quantity on the lines of a product among the items of an invoice.
LineQuantity(p, items) ==
  IF items = <<>> THEN 0
  ELSE (IF Head(items).productId = p THEN Head(items).quantity ELSE 0)
       + LineQuantity(p, Tail(items))

RECURSIVE LineRevenue(_, _)
\* The sum of Number(item.totalAmount) over the lines of a product.
LineRevenue(p, items) ==
  IF items = <<>> THEN 0
  ELSE (IF Head(items).productId = p
        THEN FromCents(Head(items).totalAmount) ELSE 0)
       + LineRevenue(p, Tail(items))

\* Lines 1895-1925: the totals of a product over the items read.
ProductStats(p, sales) ==
  [productId |-> p,
   totalQuantity |->
     SumOver([id \in 1..MaxInvoices |->
                LET is == {i \in sales : i.id = id}
                IN IF is = {} THEN 0
                   ELSE LineQuantity(p, (CHOOSE i \in is : TRUE).items)],
             {i.id : i \in sales}),
   totalRevenue |->
     SumOver([id \in 1..MaxInvoices |->
                LET is == {i \in sales : i.id = id}
                IN IF is = {} THEN 0
                   ELSE LineRevenue(p, (CHOOSE i \in is : TRUE).items)],
             {i.id : i \in sales})]

\* Lines 1928-1934: b comes before a.
Outsells(b, a) ==
  \/ b.totalQuantity > a.totalQuantity
  \/ b.totalQuantity = a.totalQuantity /\ b.totalRevenue > a.totalRevenue

RECURSIVE Ranked(_)
\* Lines 1927-1935: the statistics sorted by quantity, then by revenue,
\* both descending.
Ranked(S) ==
  IF S = {} THEN <<>>
  ELSE LET m == CHOOSE x \in S : \A y \in S : ~Outsells(y, x)
       IN <<m>> \o Ranked(S \ {m})

\* Lines 1852-1941: getTopSellingProducts.
TopSellingProducts(t, failed) ==
  IF failed # {} THEN <<>>
  ELSE LET sales == {i \in invoices :
                       i.tenantId = t /\ i.status \in {"ISSUED", "PAID"}}
           sold  == {p \in ProductIds :
                       /\ ProductTenant(p) = t
                       /\ \E i \in sales : \E k \in 1..Len(i.items) :
                            i.items[k].productId = p}
           top   == Ranked({ProductStats(p, sales) : p \in sold})
       IN SubSeq(top, 1, IF Len(top) < 10 THEN Len(top) ELSE 10)

GetTopSellingProducts(t, failed) ==
  /\ rp' = ReportAnswer("getTopSellingProducts", t, failed,
                        TopSellingProducts(t, failed))
  /\ UNCHANGED reportFrame

NoCloseout == [id |-> 0]

\* Lines 631-694 of authService.ts under the wrapper of lines 1812-1835:
\* the closeout of the tenant with the latest closingTime, null when there
\* is none or the read fails.
GetLastShiftCloseout(t, failed) ==
  /\ LET ks == {k \in 1..Len(closeouts) : closeouts[k].tenantId = t}
         latest == {k \in ks : \A m \in ks :
                      closeouts[m].closingTime <= closeouts[k].closingTime}
     IN IF failed # {} \/ ks = {}
        THEN rp' = ReportAnswer("getLastShiftCloseout", t, failed, NoCloseout)
        ELSE \E k \in latest :
               rp' = ReportAnswer("getLastShiftCloseout", t, failed,
                        [id |-> k,
                         closingTime |-> closeouts[k].closingTime,
                         startingBalance |-> FromCents(closeouts[k].startingBalance),
                         finalBalance |-> FromCents(closeouts[k].finalBalance),
                         salesTotal |-> FromCents(closeouts[k].salesTotal)])
  /\ UNCHANGED reportFrame

\* Lines 22, 42, 62, 82, 102 of reportController.ts: the controller sends
\* the result with status 200.
ReportSent ==
  /\ rp # NoReport
  /\ rp' = NoReport
  /\ UNCHANGED reportFrame

\* ------------------------------------------------------------ syncData
\* One synced model (products, invoices, ...): every model is uploaded and
\* downloaded by the same statements on its own two tables.
syncFrame == <<coreVars, rq, rp, userVars>>

SyncIds == {"r1", "r2"}

\* No row with the id; a row has its data columns, updatedAt and isSynced.
NoRow == [data |-> "none", updatedAt |-> 0, isSynced |-> TRUE]

RowsOf(store) == {id \in SyncIds : store[id] # NoRow}

\* interface SyncResult; errors is the length of the list.
SyncResult(success, uploaded, downloaded, errors) ==
  [success |-> success, uploaded |-> uploaded, downloaded |-> downloaded,
   errors |-> errors]

NoSync == SyncResult(FALSE, 0, 0, 0)

\* findMany({ where: { isSynced: false } })
Unsynced(store) == {id \in RowsOf(store) : ~store[id].isSynced}

\* { ...row, isSynced: true }
MarkedSynced(row) == [row EXCEPT !.isSynced = TRUE]

\* syncProducts: every unsynced local row is upserted into the remote store
\* as it is, whatever the remote store holds under the id.
PgAfterUpload(s, p) ==
  [id \in SyncIds |-> IF id \in Unsynced(s) THEN MarkedSynced(s[id]) ELSE p[id]]

\* ... and is then marked synced in the local store.
SqliteAfterUpload(s) ==
  [id \in SyncIds |-> IF id \in Unsynced(s) THEN MarkedSynced(s[id]) ELSE s[id]]

\* findFirst({ orderBy: { updatedAt: 'desc' } })?.updatedAt || new Date(0)
LastUpdate(s) ==
  IF RowsOf(s) = {} THEN 0
  ELSE CHOOSE m \in {s[id].updatedAt : id \in RowsOf(s)} :
         \A id \in RowsOf(s) : s[id].updatedAt <= m

\* findMany({ where: { updatedAt: { gt: lastUpdate } } })
UpdatedSince(p, lastUpdate) == {id \in RowsOf(p) : p[id].updatedAt > lastUpdate}

\* downloadProducts: the remote rows newer than the newest local row are
\* upserted into the local store.
SqliteAfterDownload(s, p) ==
  [id \in SyncIds |->
     IF id \in UpdatedSince(p, LastUpdate(s)) THEN MarkedSynced(p[id]) ELSE s[id]]

\* A row is created or changed in the local store (the offline mode); the
\* row is flagged for upload.
LocalWrite(id) ==
  /\ wall < MaxEdits
  /\ wall' = wall + 1
  /\ sqlite' = [sqlite EXCEPT ![id] =
                  [data |-> "local", updatedAt |-> wall + 1, isSynced |-> FALSE]]
  /\ sy' = NoSync
  /\ UNCHANGED <<pg, syncFrame>>

\* A row is created or changed in the remote store (the online mode, or
\* another installation); flag is the value of its isSynced column.
RemoteWrite(id, flag) ==
  /\ wall < MaxEdits
  /\ wall' = wall + 1
  /\ pg' = [pg EXCEPT ![id] =
              [data |-> "remote", updatedAt |-> wall + 1, isSynced |-> flag]]
  /\ sy' = NoSync
  /\ UNCHANGED <<sqlite, syncFrame>>

\* syncData with no write to either store while it runs; online is the
\* answer of isOnline().
SyncData(online) ==
  /\ IF ~online
       THEN /\ sy' = SyncResult(FALSE, 0, 0, 1)
            /\ UNCHANGED <<sqlite, pg>>
       ELSE LET uploaded == SqliteAfterUpload(sqlite)
                remote   == PgAfterUpload(sqlite, pg)
            IN /\ pg' = remote
               /\ sqlite' = SqliteAfterDownload(uploaded, remote)
               /\ sy' = SyncResult(TRUE, Cardinality(Unsynced(sqlite)),
                            Cardinality(UpdatedSince(remote, LastUpdate(uploaded))),
                            0)
  /\ UNCHANGED <<wall, syncFrame>>

\* The clock advances.
Tick ==
  /\ now < MaxTime
  /\ now' = now + 1
  /\ last' = NoAnswer
  /\ UNCHANGED <<apiVars, stock, invoices, nextInvoiceId, cr, ed, closeVars>>

\* ----------------------------------------------------------------------
\* register (authService.ts lines 36-125) and promoteToAdmin
\* (authController.ts lines 199-287).  A user id is the position of the
\* row in the order of creation; an email is a number, as is the id.

MaxUsers == 6
NoEmail == 0
NoTenant == "none"

\* The users behind the tokens of the report routes.
InitUsers ==
  << [id |-> 1, email |-> 1, tenantId |-> "tA", role |-> "ADMIN"],
     [id |-> 2, email |-> 2, tenantId |-> "tA", role |-> "CASHIER"],
     [id |-> 3, email |-> 3, tenantId |-> "tB", role |-> "ADMIN"],
     [id |-> 4, email |-> 4, tenantId |-> "tB", role |-> "MANAGER"] >>

Registrants == {"g1", "g2"}
Promoters == {"m1"}
AuthCallers == Registrants \cup Promoters

IdleAuth ==
  [pc |-> "idle", email |-> NoEmail, slug |-> NoTenant, given |-> FALSE,
   existing |-> FALSE, tenantId |-> NoTenant, count |-> 0, userId |-> 0,
   status |-> 0, outcome |-> "none"]

\* What the calls on the users leave alone.
userFrame == <<coreVars, rq, rp, syncVars>>

\* prisma.user.count({ where: { tenantId } })
UserCount(t) == Cardinality({i \in 1..Len(users) : users[i].tenantId = t})

\* prisma.user.findUnique({ where: { email } })
EmailInUse(email) == \E i \in 1..Len(users) : users[i].email = email

\* Line 78 of authService.ts: `${tenantSlug}-${Date.now()}`; the clock gives
\* one stamp.
Stamped(slug) ==
  CASE slug = "tA" -> "tA-1"
    [] slug = "tB" -> "tB-1"
    [] slug = "tC" -> "tC-1"
    [] OTHER       -> "stamped"

\* Line 102: existingUsers === 0 ? 'ADMIN' : 'CASHIER'
RoleAtRegister(existingUsers) ==
  IF existingUsers = 0 THEN "ADMIN" ELSE "CASHIER"

\* The call of c ends with the outcome.
AuthEnds(c, outcome, status) ==
  au' = [au EXCEPT ![c] = [IdleAuth EXCEPT !.email = au[c].email,
                                           !.slug = au[c].slug,
                                           !.tenantId = au[c].tenantId,
                                           !.userId = au[c].userId,
                                           !.outcome = outcome,
                                           !.status = status]]

\* Lines 36-40: the required fields.  given: data.tenantSlug was supplied;
\* slug is then data.tenantSlug, else the slug made of the name (lines 64-68).
RegisterBegin(c, email, slug, given) ==
  /\ au[c].pc = "idle"
  /\ IF email = NoEmail
     THEN au' = [au EXCEPT ![c] = [IdleAuth EXCEPT !.outcome = "required"]]
     ELSE au' = [au EXCEPT ![c] = [IdleAuth EXCEPT !.pc = "find", !.email = email,
                                     !.slug = slug, !.given = given]]
  /\ UNCHANGED <<users, tenants, userFrame>>

\* Lines 43-52: the email is looked up, the password hashed.
RegisterFind(c) ==
  /\ au[c].pc = "find"
  /\ IF EmailInUse(au[c].email)
     THEN AuthEnds(c, "email in use", 0)
     ELSE au' = [au EXCEPT ![c].pc = "tenant"]
  /\ UNCHANGED <<users, tenants, userFrame>>

\* Lines 55-60: the tenant of the supplied slug is looked up.
RegisterTenant(c) ==
  /\ au[c].pc = "tenant"
  /\ IF au[c].given /\ au[c].slug \in tenants
     THEN au' = [au EXCEPT ![c].pc = "count", ![c].tenantId = au[c].slug]
     ELSE au' = [au EXCEPT ![c].pc = "check"]
  /\ UNCHANGED <<users, tenants, userFrame>>

\* Lines 70-73: is the slug taken.
RegisterCheck(c) ==
  /\ au[c].pc = "check"
  /\ au' = [au EXCEPT ![c].pc = "mk", ![c].existing = (au[c].slug \in tenants)]
  /\ UNCHANGED <<users, tenants, userFrame>>

\* Lines 75-87: prisma.tenant.create, P2002 when the slug is taken by now
\* (Tenant_slug_key); the settings row of the tenant is created with it.
RegisterMk(c) ==
  /\ au[c].pc = "mk"
  /\ LET slug == IF au[c].existing THEN Stamped(au[c].slug) ELSE au[c].slug
     IN IF slug \in tenants
        THEN AuthEnds(c, "P2002", 0) /\ UNCHANGED tenants
        ELSE /\ tenants' = tenants \cup {slug}
             /\ au' = [au EXCEPT ![c].pc = "count", ![c].tenantId = slug]
  /\ UNCHANGED <<users, userFrame>>

\* Lines 91-93: prisma.user.count of the tenant.
RegisterCount(c) ==
  /\ au[c].pc = "count"
  /\ au' = [au EXCEPT ![c].pc = "create", ![c].count = UserCount(au[c].tenantId)]
  /\ UNCHANGED <<users, tenants, userFrame>>

\* Lines 96-125: prisma.user.create, P2002 when the email is taken by now
\* (User_email_key); the token is signed and the user returned.
RegisterCreate(c) ==
  /\ au[c].pc = "create"
  /\ IF EmailInUse(au[c].email)
     THEN AuthEnds(c, "P2002", 0) /\ UNCHANGED users
     ELSE /\ Len(users) < MaxUsers
          /\ users' = Append(users, [id |-> Len(users) + 1,
                                     email |-> au[c].email,
                                     tenantId |-> au[c].tenantId,
                                     role |-> RoleAtRegister(au[c].count)])
          /\ au' = [au EXCEPT ![c] = [IdleAuth EXCEPT
                                        !.email = au[c].email,
                                        !.slug = au[c].slug,
                                        !.tenantId = au[c].tenantId,
                                        !.userId = Len(users) + 1,
                                        !.outcome = "ok"]]
  /\ UNCHANGED <<tenants, userFrame>>

\* Lines 199-246 of authController.ts: the user of the token is read; an
\* ADMIN is answered 200 with a new token and nothing is written.  The
\* route (authRoutes.ts lines 20-22) runs protect before, so the request
\* has the user of a token: userId and the tenantId of that user.
PromoteBegin(c, userId) ==
  /\ au[c].pc = "idle"
  /\ userId \in 1..Len(users)
  /\ LET call == [IdleAuth EXCEPT !.userId = userId,
                                  !.tenantId = users[userId].tenantId]
     IN IF users[userId].role = "ADMIN"
        THEN au' = [au EXCEPT ![c] = [call EXCEPT !.outcome = "already ADMIN",
                                                   !.status = 200]]
        ELSE au' = [au EXCEPT ![c] = [call EXCEPT !.pc = "limit"]]
  /\ UNCHANGED <<users, tenants, userFrame>>

\* Lines 249-260: the users of the tenant are counted; more than 3 is 403.
Promotable(userId, userCount) == ~(userCount > 3)

PromoteCount(c) ==
  /\ au[c].pc = "limit"
  /\ IF Promotable(au[c].userId, UserCount(au[c].tenantId))
     THEN au' = [au EXCEPT ![c].pc = "update"]
     ELSE AuthEnds(c, "refused", 403)
  /\ UNCHANGED <<users, tenants, userFrame>>

\* Lines 262-282: prisma.user.update({ where: { id }, data: { role: 'ADMIN' } }).
PromoteUpdate(c) ==
  /\ au[c].pc = "update"
  /\ users' = [users EXCEPT ![au[c].userId].role = "ADMIN"]
  /\ AuthEnds(c, "promoted", 200)
  /\ UNCHANGED <<tenants, userFrame>>

Init ==
  /\ stock = [p \in ProductIds |-> InitStock(p)]
  /\ invoices = {}
  /\ nextInvoiceId = 1
  /\ cr = [c \in Creators |-> IdleCall]
  /\ ed = IdleEdit
  /\ registers = InitRegisters
  /\ closeouts = <<>>
  /\ cl = IdleClose
  /\ tally = [id \in 1..MaxInvoices |-> [counted |-> 0, covered |-> FALSE]]
  /\ last = NoAnswer
  /\ now = 0
  /\ rq = IdleRequest
  /\ rp = NoReport
  /\ sqlite = [id \in SyncIds |-> NoRow]
  /\ pg = [id \in SyncIds |-> NoRow]
  /\ sy = NoSync
  /\ wall = 0
  /\ users = InitUsers
  /\ tenants = Tenants
  /\ au = [c \in AuthCallers |-> IdleAuth]

\* ----------------------------------------------------------------------
\* SpecRace: two callers of one tenant create invoices concurrently, with
\* valid numbers and lines on the tenant's products; the invoices of the
\* second caller have one line.
RaceNumbers    == {NumA, NumB}
RaceProducts   == {"p1", "p2"}
RaceQuantities == {1, 2}

NextRace ==
  \/ \E c \in Creators, num \in RaceNumbers :
       CreateBegin(c, "tA", num, NoStatus, NoDate, FALSE, FALSE)
  \/ \E c \in Creators, pid \in RaceProducts, qty \in RaceQuantities :
       TxRead(c, pid, qty, NoPrice)
  \/ \E more \in BOOLEAN : TxWrite("c1", more)
  \/ TxWrite("c2", FALSE)
  \/ \E c \in Creators : TxCreate(c)
  \/ \E c \in Creators : TxError(c)

SpecRace == Init /\ [][NextRace]_vars

\* ----------------------------------------------------------------------
\* SpecTx: two callers of one tenant, every way createInvoice is rejected.
TxNumbers    == {NumEmpty, NumBlank, NumA, NumApad}
TxProducts   == ProductIds \cup {NoProduct}
TxQuantities == {1, 2}

NextTx ==
  \/ \E c \in Creators, num \in TxNumbers, noItems \in BOOLEAN :
       CreateBegin(c, "tA", num, NoStatus, NoDate, FALSE, noItems)
  \/ \E c \in Creators, pid \in TxProducts, qty \in TxQuantities :
       TxRead(c, pid, qty, NoPrice)
  \/ \E c \in Creators, more \in BOOLEAN : TxWrite(c, more)
  \/ \E c \in Creators : TxCreate(c)
  \/ \E c \in Creators : TxError(c)

SpecTx == Init /\ [][NextTx]_vars

\* ----------------------------------------------------------------------
\* SpecCrud: one caller at a time creates, reads, updates and deletes the
\* invoices of two tenants.
CrudIds  == 1..MaxInvoices
CrudData == { [total |-> 1], [tenantId |-> "tB"], [isSynced |-> TRUE] }

NextCrud ==
  \/ \E t \in Tenants :
       CreateBegin("c1", t, NumA, NoStatus, NoDate, TRUE, FALSE)
  \/ \E pid \in {"p1", "p3"} : TxRead("c1", pid, 1, NoPrice)
  \/ \E more \in BOOLEAN : TxWrite("c1", more)
  \/ TxCreate("c1")
  \/ \E t \in Tenants : GetAllInvoices(t)
  \/ \E id \in CrudIds, t \in Tenants : GetInvoiceById(id, t)
  \/ \E id \in CrudIds, data \in CrudData, t \in Tenants :
       UpdateCheck(id, data, t)
  \/ UpdateWrite
  \/ \E id \in CrudIds, t \in Tenants : DeleteCheck(id, t)
  \/ DeleteWrite

SpecCrud == Init /\ [][NextCrud]_vars

\* ----------------------------------------------------------------------
\* SpecChain: the shifts of the registers are closed one after the other
\* while the clock advances.
ChainFinal    == {3000000, 5000000}
ChainStarting == {NoBalance, 2000000}

NextChain ==
  \/ \E fb \in ChainFinal, sb \in ChainStarting :
       Len(closeouts) < MaxCloseouts /\ CloseBegin("tA", 1, fb, sb)
  \/ CloseSales(TRUE)
  \/ CloseCreate
  \/ CloseReset
  \/ Tick

SpecChain == Init /\ [][NextChain]_vars

\* ----------------------------------------------------------------------
\* SpecClose: invoices of two tenants are created while the shifts of one
\* register are closed one after the other and the clock advances.
CloseInvoices ==
  { <<"tA", NumA, "ISSUED", NoDate>>, <<"tA", NumA, "ISSUED", MaxTime>>,
    <<"tA", NumA, NoStatus, NoDate>>, <<"tA", NumB, "PAID", 0>>,
    <<"tA", NumB, "CANCELLED", NoDate>>, <<"tB", NumA, "ISSUED", NoDate>> }

NextClose ==
  \/ \E in \in CloseInvoices :
       CreateBegin("c1", in[1], in[2], in[3], in[4], FALSE, FALSE)
  \/ \E pid \in {"p1", "p3"} : TxRead("c1", pid, 1, NoPrice)
  \/ TxWrite("c1", FALSE)
  \/ TxCreate("c1")
  \/ Len(closeouts) < MaxShifts /\ CloseBegin("tA", 1, 3000000, NoBalance)
  \/ CloseSales(TRUE)
  \/ CloseCreate
  \/ CloseReset
  \/ Tick

SpecClose == Init /\ [][NextClose]_vars

\* ----------------------------------------------------------------------
\* SpecRegister: two callers register at the same time, joining tenant tA,
\* tenant tC by its slug or founding a tenant under the slug tC.
RegisterEmails == {NoEmail, 2, 5, 6}
RegisterSlugs == {"tA", "tC"}

RegisterSteps(c) ==
  \/ \E email \in RegisterEmails, slug \in RegisterSlugs, given \in BOOLEAN :
       RegisterBegin(c, email, slug, given)
  \/ RegisterFind(c)
  \/ RegisterTenant(c)
  \/ RegisterCheck(c)
  \/ RegisterMk(c)
  \/ RegisterCount(c)
  \/ RegisterCreate(c)

NextRegister ==
  \/ RegisterSteps("g1")
  \/ RegisterSteps("g2")

SpecRegister == Init /\ [][NextRegister]_vars

\* ----------------------------------------------------------------------
\* SpecPromote: users register one after the other and any user asks to be
\* promoted.
NextPromote ==
  \/ \E email \in {5, 6}, slug \in RegisterSlugs :
       RegisterBegin("g1", email, slug, TRUE)
  \/ RegisterFind("g1")
  \/ RegisterTenant("g1")
  \/ RegisterCheck("g1")
  \/ RegisterMk("g1")
  \/ RegisterCount("g1")
  \/ RegisterCreate("g1")
  \/ \E userId \in 1..MaxUsers : PromoteBegin("m1", userId)
  \/ PromoteCount("m1")
  \/ PromoteUpdate("m1")

SpecPromote == Init /\ [][NextPromote]_vars

\* ----------------------------------------------------------------------
\* SpecAuth: requests with every kind of Authorization header arrive at the
\* report routes, one at a time.
NextAuth ==
  \/ \E route \in ReportRoutes, header \in AuthHeaders : Request(route, header)
  \/ Protect
  \/ RestrictTo
  \/ Handler

SpecAuth == Init /\ [][NextAuth]_vars

\* ----------------------------------------------------------------------
\* SpecReport: the reports of both tenants are read, with every set of
\* their queries failing, while invoices are created, a shift is closed and
\* the clock advances.
ReportInvoices ==
  { <<"tA", NumA, "ISSUED">>, <<"tA", NumB, NoStatus>>, <<"tB", NumA, "PAID">> }

\* No call is in progress and no answer waits to be sent.
ReportQuiet == cr["c1"].pc = "idle" /\ cl.pc = "idle" /\ rp = NoReport

NextReport ==
  \/ /\ ReportQuiet
     /\ \E in \in ReportInvoices :
          CreateBegin("c1", in[1], in[2], in[3], NoDate, FALSE, FALSE)
  \/ \E pid \in {"p1", "p3"} : TxRead("c1", pid, 1, NoPrice)
  \/ TxWrite("c1", FALSE)
  \/ TxCreate("c1")
  \/ ReportQuiet /\ closeouts = <<>> /\ CloseBegin("tA", 1, 3000000, NoBalance)
  \/ CloseSales(TRUE)
  \/ CloseCreate
  \/ CloseReset
  \/ ReportQuiet /\ Tick
  \/ /\ ReportQuiet
     /\ \E t \in Tenants, failed \in SUBSET DashboardQueries :
          GetDashboardSummary(t, failed)
  \/ /\ ReportQuiet
     /\ \E t \in Tenants, failed \in SUBSET MonthQueries :
          GetRevenueByMonth(t, failed)
  \/ /\ ReportQuiet
     /\ \E t \in Tenants, failed \in SUBSET DayWeekQueries :
          GetDailyAndWeeklyRevenue(t, failed)
  \/ /\ ReportQuiet
     /\ \E t \in Tenants, failed \in SUBSET TopQueries :
          GetTopSellingProducts(t, failed)
  \/ /\ ReportQuiet
     /\ \E t \in Tenants, failed \in SUBSET CloseoutQueries :
          GetLastShiftCloseout(t, failed)
  \/ ReportSent

SpecReport == Init /\ [][NextReport]_vars

\* ----------------------------------------------------------------------
\* SpecSchema: shifts are closed by both tenants on registers that exist,
\* are inactive or are missing, with the schema complete and with parts of
\* it missing.
SchemaCalls == { <<"tA", 1>>, <<"tB", 2>>, <<"tB", 3>> }

\* Lines 496-501: the tenant has a register with the id.
RegisterOf(t, rid) == rid \in DOMAIN registers /\ registers[rid].tenantId = t

NextSchema ==
  \/ \E call \in SchemaCalls, sb \in ChainStarting :
       /\ Len(closeouts) < MaxShifts
       /\ RegisterOf(call[1], call[2]) \/ Cardinality(DOMAIN registers) < MaxRegisters
       /\ CloseBegin(call[1], call[2], 3000000, sb)
  \/ CloseSales(TRUE)
  \/ CloseCreate
  \/ CloseReset
  \/ \E call \in SchemaCalls, sb \in ChainStarting, missing \in SchemaGaps :
       /\ RegisterOf(call[1], call[2]) \/ Cardinality(DOMAIN registers) < MaxRegisters
       /\ CloseUnavailable(call[1], call[2], 3000000, sb, missing)
  \/ Tick

SpecSchema == Init /\ [][NextSchema]_vars

\* ----------------------------------------------------------------------
\* SpecShift: both tenants close shifts on their own register, on the
\* register of the other tenant and on a register that does not exist, with
\* and without a starting balance, while the read of the invoices works or
\* fails.
ShiftCalls    == { <<"tA", 1>>, <<"tB", 2>>, <<"tA", 2>>, <<"tB", 3>> }
ShiftStarting == {NoBalance, 0, 2000000}

NextShift ==
  \/ \E call \in ShiftCalls, sb \in ShiftStarting :
       /\ Len(closeouts) < MaxShifts
       /\ RegisterOf(call[1], call[2]) \/ Cardinality(DOMAIN registers) < MaxRegisters
       /\ CloseBegin(call[1], call[2], 3000000, sb)
  \/ \E readOk \in BOOLEAN : CloseSales(readOk)
  \/ CloseCreate
  \/ CloseReset
  \/ Tick

SpecShift == Init /\ [][NextShift]_vars

\* ----------------------------------------------------------------------
\* SpecSales: tenant tA issues invoices and closes the shifts of its
\* register; the read of the invoices works or fails.
NextSales ==
  \/ \E num \in {NumA, NumB} :
       CreateBegin("c1", "tA", num, "ISSUED", NoDate, FALSE, FALSE)
  \/ TxRead("c1", "p1", 1, NoPrice)
  \/ TxWrite("c1", FALSE)
  \/ TxCreate("c1")
  \/ Len(closeouts) < MaxShifts /\ CloseBegin("tA", 1, 3000000, NoBalance)
  \/ \E readOk \in BOOLEAN : CloseSales(readOk)
  \/ CloseCreate
  \/ CloseReset

SpecSales == Init /\ [][NextSales]_vars

\* ----------------------------------------------------------------------
\* SpecQty: one caller creates invoices whose lines carry positive, zero
\* and negative quantities.
QtyQuantities == {-2, 0, 1}

NextQty ==
  \/ \E num \in {NumA, NumB} :
       CreateBegin("c1", "tA", num, NoStatus, NoDate, FALSE, FALSE)
  \/ \E pid \in {"p1", "p2"}, qty \in QtyQuantities :
       TxRead("c1", pid, qty, NoPrice)
  \/ \E more \in BOOLEAN : TxWrite("c1", more)
  \/ TxCreate("c1")
  \/ TxError("c1")

SpecQty == Init /\ [][NextQty]_vars

\* ----------------------------------------------------------------------
\* SpecStock: invoices are created and deleted while products are updated
\* through the product service.
NextStock ==
  \/ CreateBegin("c1", "tA", NumA, NoStatus, NoDate, FALSE, FALSE)
  \/ \E qty \in {1, 2} : TxRead("c1", "p1", qty, NoPrice)
  \/ TxWrite("c1", FALSE)
  \/ TxCreate("c1")
  \/ \E t \in Tenants : DeleteCheck(1, t)
  \/ DeleteWrite
  \/ \E id \in {"p1", "p3", NoProduct}, data \in ProductPatches, t \in Tenants :
       UpdateProduct(id, data, t)
  \/ \E t \in Tenants : UpdateProductStock("p2", 0, t)

SpecStock == Init /\ [][NextStock]_vars

\* ----------------------------------------------------------------------
\* SpecSync: rows are written in the local and in the remote store, and the
\* stores are synchronised between the writes. SpecSyncLive: syncData is
\* called again and again while the remote store is reachable.
NextSync ==
  \/ \E id \in SyncIds : LocalWrite(id)
  \/ \E id \in SyncIds, flag \in BOOLEAN : RemoteWrite(id, flag)
  \/ \E online \in BOOLEAN : SyncData(online)

SpecSync == Init /\ [][NextSync]_vars

SpecSyncLive == SpecSync /\ WF_vars(SyncData(TRUE))

\* ----------------------------------------------------------------------
\* SpecPrice: one caller creates invoices with and without IVA whose lines
\* carry a unit price, a tax rate, both or neither.
PriceItems ==
  [productId : {"p1", "p2"}, quantity : {1, 2}, unitPrice : {NoPrice, 0, 250},
   taxRate : {NoRate, 5}]

NextPrice ==
  \/ \E num \in {NumA, NumB}, iva \in BOOLEAN :
       CreateBegin("c1", "tA", num, NoStatus, NoDate, iva, FALSE)
  \/ \E item \in PriceItems : TxReadItem("c1", item)
  \/ \E more \in BOOLEAN : TxWrite("c1", more)
  \/ TxCreate("c1")

SpecPrice == Init /\ [][NextPrice]_vars

\* ----------------------------------------------------------------------
\* Claims on createInvoice

\* The quantity of product p on the lines of the stored invoices.
RECURSIVE SoldOnLines(_, _)
SoldOnLines(p, items) ==
  IF items = <<>> THEN 0
  ELSE (IF Head(items).productId = p THEN Head(items).quantity ELSE 0)
       + SoldOnLines(p, Tail(items))

RECURSIVE SoldIn(_, _)
SoldIn(p, invs) ==
  IF invs = {} THEN 0
  ELSE LET i == CHOOSE x \in invs : TRUE
       IN SoldOnLines(p, i.items) + SoldIn(p, invs \ {i})

InvoicesWith(p) ==
  {i \in invoices : \E k \in 1..Len(i.items) : i.items[k].productId = p}

\* C1: whatever the interleaving of concurrent createInvoice calls with
\* positive quantities, the committed stock of every product is >= 0.
C1_StockNeverNegative == \A p \in ProductIds : stock[p] >= 0

\* Two invoices that sold the product with one unit in stock are both
\* committed, and its stock is 0.
C1_Witness ==
  /\ Cardinality(InvoicesWith("p2")) = 2
  /\ stock["p2"] = 0

\* C2: the quantities of a product sold by committed invoices never add up
\* to more than the stock the product had before them (with stock 1 and two
\* concurrent calls for 1 unit each, at most one commits).
C2_NoOversell == \A p \in ProductIds : SoldIn(p, invoices) <= InitStock(p)

\* C3: a step that rejects a createInvoice call, for whatever reason, leaves
\* the stock of every product and the stored invoices and items as they
\* were; stock and invoices change only in the step that ends a call with
\* success.
C3_RejectionChangesNothing ==
  [][ /\ (last'.op = "createInvoice" /\ last'.outcome # "ok")
           => (stock' = stock /\ invoices' = invoices)
      /\ (stock' # stock \/ invoices' # invoices)
           => (last'.op = "createInvoice" /\ last'.outcome = "ok") ]_vars

\* A call was rejected for insufficient stock on a later line, after an
\* earlier line had passed and had been decremented, and the stock is what
\* it was.
C3_Witness ==
  /\ last.op = "createInvoice"
  /\ last.outcome = "insufficient stock"
  /\ last.lines >= 1
  /\ stock = [p \in ProductIds |-> InitStock(p)]
  /\ invoices = {}

\* C5: no two stored invoices of a tenant have the same number after
\* trimming; a createInvoice call whose trimmed number is in use by its
\* tenant never succeeds and leaves the stored invoices as they are, and
\* when it is the number that stops it (at the check before the transaction
\* or at the insert, the database not having closed the transaction) the
\* error is the number-in-use conflict.
C5_DuplicateNumberRejected ==
  /\ [](\A i, j \in invoices :
          (i.tenantId = j.tenantId /\ Trim(i.number) = Trim(j.number))
            => i = j)
  /\ [][ (last'.op = "createInvoice"
           /\ NumberInUse(last'.tenant, Trim(last'.number)))
         => /\ last'.outcome # "ok"
            /\ invoices' = invoices
            /\ ((\E c \in Creators : cr[c].pc = "create" /\ cr'[c].pc = "idle")
                 /\ last'.outcome # "transaction closed")
                 => last'.outcome = "number in use"
            /\ (cr' = cr /\ last'.outcome \notin
                              {"number required", "items required"})
                 => last'.outcome = "number in use" ]_vars

\* A call that got past the check before the transaction and processed its
\* lines was rejected at the insert because a concurrent call had taken the
\* number, written differently.
C5_Witness ==
  /\ last.op = "createInvoice"
  /\ last.outcome = "number in use"
  /\ last.lines >= 1
  /\ \E i \in invoices : i.tenantId = last.tenant
                          /\ i.number = Trim(last.number)
                          /\ i.number # last.number

\* The lines of an invoice whose stock after the decrement is <= 5, as
\* <<product, stock left>>.
RECURSIVE LowLines(_, _, _)
LowLines(items, after, k) ==
  IF k > Len(items) THEN <<>>
  ELSE (IF after[k] <= 5 THEN << <<items[k].productId, after[k]>> >> ELSE <<>>)
       \o LowLines(items, after, k + 1)

\* The last line of the invoice on the product of line k.
LastLineOn(i, k) ==
  \A m \in (k + 1)..Len(i.items) : i.items[m].productId # i.items[k].productId

\* C6: the warnings returned with a created invoice are exactly those of the
\* lines whose stock after the decrement is <= 5, and the call that returns
\* them has committed the invoice and the stock its lines wrote.
C6_LowStockWarnings ==
  /\ \A i \in invoices : i.warnings = LowLines(i.items, i.stockAfter, 1)
  /\ (last.op = "createInvoice" /\ last.outcome = "ok")
       => \E i \in invoices :
            /\ i.id = last.id
            /\ \A k \in 1..Len(i.items) :
                 LastLineOn(i, k) => stock[i.items[k].productId] = i.stockAfter[k]

\* A call has just returned an invoice of two lines on one product: 7 - 1
\* leaves 6 (no warning), 6 - 1 leaves 5 (warning); the invoice is stored
\* and the stock is 5.
C6_Witness ==
  /\ last.op = "createInvoice" /\ last.outcome = "ok"
  /\ \E i \in invoices :
       /\ i.id = last.id
       /\ i.stockAfter = <<6, 5>>
       /\ i.warnings = << <<"p1", 5>> >>
       /\ stock["p1"] = 5

\* ----------------------------------------------------------------------
\* Claims on the totals and on the tenants of invoices

\* The sum over stored items of unitPrice * quantity.
RECURSIVE SumRowSubtotals(_)
SumRowSubtotals(rows) ==
  IF rows = <<>> THEN 0
  ELSE Head(rows).unitPrice * Head(rows).quantity + SumRowSubtotals(Tail(rows))

\* The sum over stored items of taxAmount.
RECURSIVE SumRowTaxes(_)
SumRowTaxes(rows) ==
  IF rows = <<>> THEN 0 ELSE Head(rows).taxAmount + SumRowTaxes(Tail(rows))

\* C4: every stored invoice has total = subtotal + taxTotal, subtotal = the
\* sum over its items of unitPrice * quantity and taxTotal = the sum over its
\* items of taxAmount.
C4_TotalsConsistent ==
  \A i \in invoices :
    /\ i.total = i.subtotal + i.taxTotal
    /\ i.subtotal = SumRowSubtotals(i.items)
    /\ i.taxTotal = SumRowTaxes(i.items)

\* C10: getInvoiceById, updateInvoice and deleteInvoice called by a tenant
\* on an invoice that another tenant owns answer not found, return no row
\* and leave the stored invoices as they are; getAllInvoices returns only
\* invoices of the calling tenant.
C10_TenantIsolation ==
  [][ /\ (/\ last'.op \in {"getInvoiceById", "updateInvoice", "deleteInvoice"}
          /\ \E i \in invoices : i.id = last'.id /\ i.tenantId # last'.tenant)
        => /\ last'.outcome = "not found"
           /\ last'.rows = {}
           /\ invoices' = invoices
      /\ last'.op = "getAllInvoices"
        => \A r \in last'.rows : r.tenantId = last'.tenant ]_vars

\* An update by a tenant of an invoice that another tenant owns has just
\* been answered not found, and the invoice is stored.
C10_Witness ==
  /\ last.op = "updateInvoice"
  /\ last.outcome = "not found"
  /\ \E i \in invoices : i.id = last.id /\ i.tenantId # last.tenant

\* ----------------------------------------------------------------------
\* Claims on closeDayShift

\* The closeouts made before closeout k on its register by its tenant.
Before(k) ==
  {m \in 1..(k - 1) :
     /\ closeouts[m].tenantId = closeouts[k].tenantId
     /\ closeouts[m].cashRegisterId = closeouts[k].cashRegisterId}

LatestOf(ms) ==
  {m \in ms : \A n \in ms : closeouts[n].closingTime <= closeouts[m].closingTime}

\* C7: a closeout made without an explicit startingBalance, when its tenant
\* has closed the register before, records as startingBalance the
\* finalBalance of the closeout of that register with the latest closingTime
\* before it.
C7_StartingBalanceChained ==
  \A k \in 1..Len(closeouts) :
    (~closeouts[k].explicit /\ Before(k) # {})
      => \E m \in LatestOf(Before(k)) :
           closeouts[k].startingBalance = closeouts[m].finalBalance

\* Closeout 1 ended with 300.00, closeout 2 later with 500.00, and closeout 3,
\* made without a startingBalance, starts with 500.00.
C7_Witness ==
  /\ Len(closeouts) = 3
  /\ closeouts[1].finalBalance = 30000
  /\ closeouts[2].finalBalance = 50000
  /\ closeouts[1].closingTime < closeouts[2].closingTime
  /\ ~closeouts[3].explicit
  /\ closeouts[3].startingBalance = 50000

\* C8: every ISSUED or PAID invoice is summed into the salesTotal of at most
\* one closeout of the register, and of exactly one once a closeDayShift call
\* that began after the invoice was stored has recorded its closeout.
C8_CountedOnce ==
  \A i \in invoices :
    i.status \in {"ISSUED", "PAID"} /\ i.tenantId = "tA"
      => /\ tally[i.id].counted <= 1
         /\ tally[i.id].covered => tally[i.id].counted = 1

\* The closingTime of the previous closeout of the register of the call in
\* progress, NoClosing when there is none.
PreviousClosing ==
  LET ks == {k \in 1..Len(closeouts) :
               /\ closeouts[k].tenantId = cl.tenantId
               /\ closeouts[k].cashRegisterId = cl.cashRegisterId}
  IN IF ks = {} THEN NoClosing
     ELSE closeouts[CHOOSE k \in ks :
                      \A m \in ks : closeouts[m].closingTime
                                      <= closeouts[k].closingTime].closingTime

\* The total in cents of the invoice with the id if closeDayShift is to sum
\* it, else 0.
Counts(id) ==
  LET is == {i \in invoices :
               /\ i.id = id
               /\ i.tenantId = cl.tenantId
               /\ i.status = "ISSUED" \/ i.status = "PAID"
               /\ PreviousClosing = NoClosing \/ i.issueDate >= PreviousClosing}
  IN IF is = {} THEN 0 ELSE (CHOOSE i \in is : TRUE).total

RECURSIVE ExpectedSales(_)
ExpectedSales(id) == IF id = 0 THEN 0 ELSE Counts(id) + ExpectedSales(id - 1)

Carried == HeaderToken(rq.header)

DefaultReport(op) ==
  CASE op = "getDashboardSummary"      -> ZeroSummary
    [] op = "getDailyAndWeeklyRevenue" -> [daily |-> <<>>, weekly |-> {}]
    [] op = "getLastShiftCloseout"     -> NoCloseout
    [] OTHER                           -> <<>>

\* C12: a read of the report service never propagates an error, and when
\* any of its queries fails it returns its default: the zero-valued summary,
\* empty lists, or null.
C12_ReadsDefaultOnFailure ==
  /\ ~rp.threw
  /\ rp.failed # {} => rp.result = DefaultReport(rp.op)

\* C13: a closeDayShift call that fails because the models or the tables of
\* the registers and closeouts are unavailable is answered with the
\* migration message and status 503, never with status 500.
C13_SchemaNotReady ==
  (last.op = "closeDayShift" /\ last.outcome \in {ModelsMessage, MigrationMessage})
    => last.outcome = MigrationMessage /\ last.status = 503

\* C14: the stock of a product changes only in a step that ends a
\* createInvoice call with success, and only downwards.
C14_StockOnlyByInvoice ==
  [][ stock' # stock
        => /\ last'.op = "createInvoice" /\ last'.outcome = "ok"
           /\ \A p \in ProductIds : stock'[p] <= stock[p] ]_vars


\* A line references a product row of the tenant.
OwnLine(line, tenantId) ==
  line.productId \in ProductIds /\ ProductTenant(line.productId) = tenantId

\* C15: createInvoice never processes a line whose product is missing or
\* belongs to another tenant (the call is rejected at that line), so every
\* item of every created invoice references a product of the invoice's
\* tenant.
C15_ItemsOfOwnTenant ==
  /\ \A i \in invoices : \A k \in 1..Len(i.items) : OwnLine(i.items[k], i.tenantId)
  /\ \A c \in Creators :
       /\ \A k \in 1..Len(cr[c].processed) :
            OwnLine(cr[c].processed[k], cr[c].tenantId)
       /\ cr[c].cur # <<>> => OwnLine(cr[c].cur, cr[c].tenantId)
  /\ last.op = "createInvoice" /\ last.outcome = "ok" =>
       \E i \in invoices : i.id = last.id /\ i.tenantId = last.tenant

\* An invoice was created, and a later call was rejected at its second
\* line for a product of another tenant.
C15_Witness ==
  /\ invoices # {}
  /\ last.op = "createInvoice"
  /\ last.outcome = "product of another tenant"
  /\ last.lines = 1


\* ----------------------------------------------------------------------
\* Claims on syncData

\* Two rows are the same version: the same data written at the same time.
SameVersion(a, b) == a.data = b.data /\ a.updatedAt = b.updatedAt

\* Every row is in both stores in the same version and no local row waits
\* for upload.
Converged ==
  \A id \in SyncIds : SameVersion(sqlite[id], pg[id]) /\ sqlite[id].isSynced

\* C16: the writes to the stores stop (every behaviour has at most
\* MaxEdits of them) and syncData keeps running with the remote store
\* reachable: from some time on the two stores hold the same rows and no
\* local row has isSynced = false.
C16_SyncConverges == <>[]Converged

\* The version written last.
Newer(a, b) == IF a.updatedAt >= b.updatedAt THEN a ELSE b

\* C17: a successful syncData leaves, for every row flagged isSynced =
\* false locally that the remote store also holds, the version with the
\* greater updatedAt in both stores.
C17_LastWriterWins ==
  [][ sy'.success =>
        \A id \in SyncIds :
          (sqlite[id] # NoRow /\ ~sqlite[id].isSynced /\ pg[id] # NoRow) =>
            /\ SameVersion(sqlite'[id], Newer(sqlite[id], pg[id]))
            /\ SameVersion(pg'[id], Newer(sqlite[id], pg[id])) ]_vars


\* ----------------------------------------------------------------------
\* Further claims on createInvoice

\* The invoice a successful createInvoice has just returned.
Created(id) == CHOOSE i \in invoices' : i.id = id

\* C18: the commit of a successful createInvoice lowers the stock of every
\* product by the sum of the quantities of the lines of the invoice that
\* reference it (0 for a product on no line).
C18_StockDecrement ==
  [][ (last'.op = "createInvoice" /\ last'.outcome = "ok") =>
        \A p \in ProductIds :
          stock'[p] = stock[p] - SoldOnLines(p, Created(last'.id).items) ]_vars


\* The price the caller supplied for a line, else the price of the product
\* (cents).
AskedPrice(line) ==
  IF line.item.unitPrice # NoPrice THEN line.item.unitPrice
  ELSE ProductPrice(line.productId)

\* C19: every line of an invoice createInvoice has just stored carries the
\* unitPrice its item supplied, whatever the value (0 included), and the
\* price of the product when the item supplied none.
C19_UnitPriceAsSupplied ==
  [][ (last'.op = "createInvoice" /\ last'.outcome = "ok") =>
        \A k \in 1..Len(cr["c1"].processed) :
          Created(last'.id).items[k].unitPrice = AskedPrice(cr["c1"].processed[k])
    ]_vars

\* C20: on every stored line taxAmount is 19% of unitPrice * quantity when
\* the invoice was created with applyIva and 0 otherwise, and totalAmount is
\* unitPrice * quantity + taxAmount (amounts in cents).
C20_LineTax ==
  \A i \in invoices : \A k \in 1..Len(i.items) :
    LET row == i.items[k] IN
    /\ 100 * row.taxAmount =
         (IF row.taxRateApplied # 0 THEN IVA_RATE_PCT ELSE 0)
           * row.unitPrice * row.quantity
    /\ row.totalAmount = row.unitPrice * row.quantity + row.taxAmount


\* ----------------------------------------------------------------------
\* Further claims on closeDayShift

\* The first step of a closeDayShift call.
BeginsClose == cl.pc = "idle" /\ cl'.pc = "sales"

\* The balance in cents of the register the call works on: the tenant's
\* register with the id, else the register the call creates.
BalanceOfRegister ==
  IF RegisterOf(cl'.tenantId, cl'.cashRegisterId)
    THEN registers[cl'.cashRegisterId].currentBalance ELSE 0

\* C21: the starting balance of a closeDayShift call is the value of the
\* caller when one is given (0 included, previous closeout or not), else
\* the finalBalance of the latest closeout of the tenant on the register,
\* else the currentBalance of the register; the closeout row stores it.
C21_StartingBalancePrecedence ==
  [][ /\ BeginsClose =>
           LET prev == CloseoutsOf(cl'.tenantId, cl'.cashRegisterId) IN
           IF cl'.given # NoBalance
             THEN cl'.startingBalance = cl'.given
           ELSE IF prev # {}
             THEN \E m \in Latest(prev) :
                    cl'.startingBalance = FromCents(closeouts[m].finalBalance)
           ELSE cl'.startingBalance = FromCents(BalanceOfRegister)
      /\ Len(closeouts') > Len(closeouts) =>
           closeouts'[Len(closeouts')].startingBalance = Dec2(cl.startingBalance)
    ]_vars

\* The register was closed with 300.00, and the next closeout, called with
\* the starting balance 0, starts with 0.
C21_Witness ==
  /\ Len(closeouts) = 2
  /\ closeouts[1].tenantId = "tA" /\ closeouts[1].cashRegisterId = 1
  /\ closeouts[2].tenantId = "tA" /\ closeouts[2].cashRegisterId = 1
  /\ closeouts[1].finalBalance = 30000
  /\ closeouts[2].explicit /\ closeouts[2].startingBalance = 0


\* The last step of a successful closeDayShift call.
ClosedOk == last'.op = "closeDayShift" /\ last'.outcome = "ok"

\* C22: after a successful closeDayShift(tenantId, cashRegisterId) a
\* register with the id cashRegisterId exists, is owned by tenantId and is
\* active, and the closeout row of the call references it.
C22_RegisterOfCall ==
  [][ ClosedOk =>
        /\ last'.id \in DOMAIN registers'
        /\ registers'[last'.id].tenantId = last'.tenant
        /\ registers'[last'.id].isActive
        /\ closeouts'[Len(closeouts')].cashRegisterId = last'.id ]_vars

\* C24: every closeout row has the tenantId of the register it references,
\* and a closeDayShift step changes no register of another tenant than the
\* caller's.
C24_RegisterOfOwnTenant ==
  [][ /\ \A k \in 1..Len(closeouts') :
           /\ closeouts'[k].cashRegisterId \in DOMAIN registers'
           /\ registers'[closeouts'[k].cashRegisterId].tenantId
                = closeouts'[k].tenantId
      /\ \A rid \in DOMAIN registers :
           registers'[rid] # registers[rid] =>
             registers[rid].tenantId = (IF cl.pc = "idle" THEN cl'.tenantId
                                        ELSE cl.tenantId) ]_vars


\* The closeout row a call at its create step is to store.
RowOfCall ==
  [tenantId |-> cl.tenantId, cashRegisterId |-> cl.cashRegisterId,
   closingTime |-> now, startingBalance |-> Dec2(cl.startingBalance),
   finalBalance |-> Dec2(cl.finalBalance), salesTotal |-> Dec2(cl.salesTotal),
   closedByUserId |-> CloseUser, explicit |-> cl.explicit]

\* C23: a successful closeDayShift appends one closeout row, with the
\* finalBalance given, the starting balance resolved, the sales total
\* computed and the closing user, and ends with the currentBalance of the
\* register with the id of the call at 0; no step changes or removes a closeout row stored before.
C23_OneCloseoutAppended ==
  [][ /\ IF cl.pc = "create" /\ cl'.pc = "reset"
           THEN closeouts' = Append(closeouts, RowOfCall)
           ELSE closeouts' = closeouts
      /\ ClosedOk =>
           /\ cl.pc = "reset"
           /\ registers'[last'.id].currentBalance = 0 ]_vars

\* Register 1 of tenant tA, which held 1.00, was closed: it holds 0 and
\* the closeout has the final balance 300.00.
C23_Witness ==
  /\ last.op = "closeDayShift" /\ last.outcome = "ok" /\ last.id = 1
  /\ Len(closeouts) = 1
  /\ closeouts[1].finalBalance = 30000 /\ closeouts[1].startingBalance = 100
  /\ registers[1].currentBalance = 0


\* C30: a closeDayShift call whose read of the invoices failed goes on: it
\* stores its closeout with salesTotal 0 and answers ok.
C30_FailedReadClosesWithZero ==
  [][ (cl.readFailed /\ cl' # cl) =>
        /\ cl'.pc \in {"create", "reset", "idle"}
        /\ last'.outcome \in {"none", "ok"}
        /\ Len(closeouts') > Len(closeouts) =>
             closeouts'[Len(closeouts')].salesTotal = 0
        /\ ClosedOk => closeouts'[Len(closeouts')].salesTotal = 0 ]_vars

\* An issued invoice of 1.03 was stored when the shift was closed, and the
\* closeout, made by a successful call, has the sales total 0.
C30_Witness ==
  /\ last.op = "closeDayShift" /\ last.outcome = "ok"
  /\ Len(closeouts) = 1 /\ closeouts[1].salesTotal = 0
  /\ \E i \in invoices :
       /\ i.id = 1 /\ i.status = "ISSUED" /\ i.total = 103
       /\ tally[1].covered /\ tally[1].counted = 0


\* ----------------------------------------------------------------------
\* Further claims on the invoices

\* C25: no step changes the tenantId of a stored invoice; an invoice keeps
\* the tenant it was created with through every updateInvoice.
C25_TenantKept ==
  [][ \A i \in invoices : \A j \in invoices' :
        i.id = j.id => j.tenantId = i.tenantId ]_vars


\* C26: the step that ends a createInvoice call, with whatever quantities
\* on its lines, leaves no product with more stock than before.
C26_StockNeverRaised ==
  [][ last'.op = "createInvoice" =>
        \A p \in ProductIds : stock'[p] <= stock[p] ]_vars


\* C27: deleteInvoice removes the invoice with its items, and no step of a
\* deleteInvoice call changes the stock of a product.
C27_DeleteKeepsStock ==
  [][ /\ ((ed' # ed /\ (ed.pc = "delete" \/ ed'.pc = "delete"))
            \/ last'.op = "deleteInvoice")
           => stock' = stock
      /\ (last'.op = "deleteInvoice" /\ last'.outcome = "ok") =>
           /\ \E i \in invoices : i.id = last'.id
           /\ invoices' = {i \in invoices : i.id # last'.id}
      /\ (last'.op = "deleteInvoice" /\ last'.outcome # "ok") =>
           invoices' = invoices ]_vars

\* The invoice that took units of product p1 was deleted, and the units
\* are still gone.
C27_Witness ==
  /\ last.op = "deleteInvoice" /\ last.outcome = "ok"
  /\ invoices = {} /\ nextInvoiceId = 2
  /\ stock["p1"] \in {5, 6}


\* ----------------------------------------------------------------------
\* Claims on the roles of the users

\* No user of the tenant was created before position k.
FirstOfTenant(rows, k) ==
  \A i \in 1..(k - 1) : rows[i].tenantId # rows[k].tenantId

\* C28: whenever a register call creates a user, the user is given ADMIN if
\* no user of the tenant was created before and CASHIER otherwise, however
\* the register calls interleave.
C28_FirstRegistrantAdmin ==
  [][ Len(users') = Len(users) + 1 =>
        users'[Len(users')].role =
          IF FirstOfTenant(users', Len(users')) THEN "ADMIN" ELSE "CASHIER" ]_vars

\* C29: a promoteToAdmin call changes no row of an ADMIN, makes a user ADMIN
\* only if the user is the first of the tenant, and refuses every other
\* user with 403, leaving the role as it was.
C29_PromoteOnlyFirst ==
  [][ \A c \in Promoters :
        (au'[c] # au[c] /\ au'[c].pc = "idle") =>
          LET u == au'[c].userId
          IN /\ users[u].role = "ADMIN" => users' = users
             /\ users' # users =>
                  /\ FirstOfTenant(users, u)
                  /\ users' = [users EXCEPT ![u].role = "ADMIN"]
             /\ (users[u].role # "ADMIN" /\ ~FirstOfTenant(users, u)) =>
                  /\ au'[c].status = 403
                  /\ users' = users ]_vars

====
